---- MODULE Spec2Model ----
(***************************************************************************)
(* A model of the GraphML codec of dennwc/graphml: the streaming decoder   *)
(* (docDecoder), the document model with its attribute marshalling, and    *)
(* the encoder (docEncoder).  The token source is the environment: it      *)
(* hands the decoder one XML token per pull, or end-of-stream, or a        *)
(* source error.                                                           *)
(***************************************************************************)
EXTENDS Integers, Sequences, FiniteSets, TLC

VARIABLES b, consumed, ret, out, unread, readers

vars == <<b, consumed, ret, out, unread, readers>>

\* ------------------------------------------------------------------ bounds
\* Longest event stream the source hands out in one decode pass.
MaxTokens == 6
\* Most events captured into one data payload.
MaxPayload == 2
\* Most events the stream still holds once Decode has returned.
MaxUnread == 1
\* Most readers taken from the Data of one document.
MaxReaders == 2
\* Most Token calls made on the readers of one document.
MaxReads == 4

\* ------------------------------------------------------- names and tokens
Namespace == "http://graphml.graphdrawing.org/xmlns"

OtherSpace == "http://www.yworks.com/xml/graphml"

Nil == "nil"

Name(space, local) == [Space |-> space, Local |-> local]

newAttr(ns, local, value) == [Name |-> Name(ns, local), Value |-> value]

mlName(name) == Name("", name)

StartElement(name, attr) == [type |-> "StartElement", Name |-> name, Attr |-> attr]

EndElement(name) == [type |-> "EndElement", Name |-> name]

CharData(text) == [type |-> "CharData", text |-> text]

Comment == [type |-> "Comment"]

ProcInst(target) == [type |-> "ProcInst", Target |-> target]

Directive == [type |-> "Directive"]

\* bytes.TrimSpace on a text given as a sequence of characters
RECURSIVE TrimLeft(_)
TrimLeft(s) == IF s # <<>> /\ Head(s) = " " THEN TrimLeft(Tail(s)) ELSE s

RECURSIVE TrimRight(_)
TrimRight(s) ==
    IF s # <<>> /\ s[Len(s)] = " " THEN TrimRight(SubSeq(s, 1, Len(s) - 1)) ELSE s

TrimSpace(s) == TrimRight(TrimLeft(s))

\* canSkip that lets only comments pass
canSkipCommentsOnly(t) == t.type = "Comment"

canSkip(t) ==
    CASE t.type = "Comment" -> TRUE
      [] t.type = "CharData" -> Len(TrimSpace(t.text)) = 0
      [] OTHER -> FALSE

\* ------------------------------------------------------- document model
KindAll == "all"
KindGraphML == "graphml"
KindGraph == "graph"
KindNode == "node"
KindEdge == "edge"

EmptyInstr == ProcInst("")

NewDocument == [Instr |-> EmptyInstr, Attrs |-> <<>>, Keys |-> <<>>,
                Graphs |-> <<>>, Data |-> <<>>]

ZeroKey == [ID |-> "", Unrecognized |-> <<>>, For |-> "", Name |-> "", Type |-> ""]

ZeroGraph == [ID |-> "", Unrecognized |-> <<>>, Data |-> <<>>, EdgeDefault |-> "",
              Nodes |-> <<>>, Edges |-> <<>>]

ZeroNode == [ID |-> "", Unrecognized |-> <<>>, Data |-> <<>>, Graphs |-> <<>>]

ZeroEdge == [ID |-> "", Unrecognized |-> <<>>, Data |-> <<>>, Source |-> "", Target |-> ""]

ZeroData == [Key |-> "", Unrecognized |-> <<>>, Data |-> <<>>]

\* Object.addAttr that takes id only without a namespace
ObjectAddAttrQualified(o, a) ==
    IF a.Name = Name("", "id") THEN [o EXCEPT !.ID = a.Value]
    ELSE [o EXCEPT !.Unrecognized = Append(@, a)]

\* Object.addAttr on any record that embeds Object
ObjectAddAttr(o, a) ==
    IF a.Name.Local = "id" THEN [o EXCEPT !.ID = a.Value]
    ELSE [o EXCEPT !.Unrecognized = Append(@, a)]

ObjectAttrs(o) ==
    (IF o.ID # "" THEN <<newAttr("", "id", o.ID)>> ELSE <<>>) \o o.Unrecognized

KeyAddAttr(k, a) ==
    CASE a.Name.Local = "for" -> [k EXCEPT !.For = a.Value]
      [] a.Name.Local = "attr.name" -> [k EXCEPT !.Name = a.Value]
      [] a.Name.Local = "attr.type" -> [k EXCEPT !.Type = a.Value]
      [] OTHER -> ObjectAddAttr(k, a)

\* Key.attrs with the key's own fields before the unrecognized attributes
KeyAttrsFieldsFirst(k) ==
    (IF k.ID # "" THEN <<newAttr("", "id", k.ID)>> ELSE <<>>)
      \o <<newAttr("", "for", k.For)>>
      \o (IF k.Name # "" THEN <<newAttr("", "attr.name", k.Name)>> ELSE <<>>)
      \o (IF k.Type # "" THEN <<newAttr("", "attr.type", k.Type)>> ELSE <<>>)
      \o k.Unrecognized

KeyAttrs(k) ==
    ObjectAttrs(k) \o <<newAttr("", "for", k.For)>>
      \o (IF k.Name # "" THEN <<newAttr("", "attr.name", k.Name)>> ELSE <<>>)
      \o (IF k.Type # "" THEN <<newAttr("", "attr.type", k.Type)>> ELSE <<>>)

GraphAddAttr(g, a) ==
    IF a.Name.Local = "edgedefault" THEN [g EXCEPT !.EdgeDefault = a.Value]
    ELSE ObjectAddAttr(g, a)

GraphAttrs(g) ==
    ObjectAttrs(g)
      \o (IF g.EdgeDefault # "" THEN <<newAttr("", "edgedefault", g.EdgeDefault)>> ELSE <<>>)

NodeAddAttr(n, a) == ObjectAddAttr(n, a)

NodeAttrs(n) == ObjectAttrs(n)

EdgeAddAttr(e, a) ==
    CASE a.Name.Local = "source" -> [e EXCEPT !.Source = a.Value]
      [] a.Name.Local = "target" -> [e EXCEPT !.Target = a.Value]
      [] OTHER -> ObjectAddAttr(e, a)

EdgeAttrs(e) ==
    ObjectAttrs(e) \o <<newAttr("", "source", e.Source), newAttr("", "target", e.Target)>>

DataAddAttr(d, a) ==
    IF a.Name.Local = "key" THEN [d EXCEPT !.Key = a.Value]
    ELSE [d EXCEPT !.Unrecognized = Append(@, a)]

DataAttrs(d) == <<newAttr("", "key", d.Key)>> \o d.Unrecognized

\* `for _, a := range start.Attr { x.addAttr(a) }` for the element kind named
RECURSIVE AddAttrs(_, _, _)
AddAttrs(kind, x, attr) ==
    IF attr = <<>> THEN x
    ELSE AddAttrs(kind,
                  CASE kind = "key" -> KeyAddAttr(x, Head(attr))
                    [] kind = "graph" -> GraphAddAttr(x, Head(attr))
                    [] kind = "node" -> NodeAddAttr(x, Head(attr))
                    [] kind = "edge" -> EdgeAddAttr(x, Head(attr))
                    [] kind = "data" -> DataAddAttr(x, Head(attr)),
                  Tail(attr))

\* ------------------------------------------------------------- decoder
\* One activation record of the recursive descent: the function whose token
\* loop is running, the name of the start tag it was entered with, the
\* element it is building, and (for decodeData) the kind of its parent.
Frame(fn, start, obj, kind) == [fn |-> fn, start |-> start, obj |-> obj, kind |-> kind]

NoObj == [none |-> TRUE]

NoName == Name("", "")

\* b := &docDecoder{doc: new(Document), keysAll: ..., keys: ..., ids: ...}
NewDocDecoder ==
    [doc |-> NewDocument, keysAll |-> <<>>, keys |-> <<>>, ids |-> {},
     stack |-> <<Frame("startGraphML", NoName, NoObj, "")>>, err |-> Nil]

Top(d) == d.stack[Len(d.stack)]

Pop(stack) == SubSeq(stack, 1, Len(stack) - 1)

Fail(d, e) == [d EXCEPT !.err = e]

\* a pass that goes on after an error
RunningDespiteError(d) == d.stack # <<>>

\* the pass is neither over nor failed
Running(d) == d.err = Nil /\ d.stack # <<>>

Push(d, f) == [d EXCEPT !.stack = Append(@, f)]

docKey(name, kind) == [name |-> name, kind |-> kind]

\* decodeKey with one flat key namespace: an identifier may be declared once
decodeKeyFlat(d, start) ==
    LET k0 == AddAttrs("key", ZeroKey, start.Attr)
        k == IF k0.For = "" THEN [k0 EXCEPT !.For = KindAll] ELSE k0
        dk == docKey(k.ID, k.For)
        added == [d EXCEPT !.doc.Keys = Append(@, k)]
    IN  IF k.ID \in DOMAIN d.keysAll \/ \E o \in DOMAIN d.keys : o.name = k.ID
        THEN Fail(d, "redefinition of key")
        ELSE IF k.For = KindAll
        THEN Push([added EXCEPT !.keysAll = (k.ID :> k) @@ @],
                  Frame("expectEnd", start.Name, NoObj, ""))
        ELSE Push([added EXCEPT !.keys = (dk :> k) @@ @],
                  Frame("expectEnd", start.Name, NoObj, ""))

\* decodeKey that appends the key to the document before the lookup
decodeKeyAppendFirst(d, start) ==
    LET k0 == AddAttrs("key", ZeroKey, start.Attr)
        k == IF k0.For = "" THEN [k0 EXCEPT !.For = KindAll] ELSE k0
        dk == docKey(k.ID, k.For)
        added == [d EXCEPT !.doc.Keys = Append(@, k)]
    IN  IF k.For = KindAll
        THEN IF k.ID \in DOMAIN d.keysAll
             THEN Fail(added, "redefinition of key")
             ELSE Push([added EXCEPT !.keysAll = (k.ID :> k) @@ @],
                       Frame("expectEnd", start.Name, NoObj, ""))
        ELSE IF dk \in DOMAIN d.keys
             THEN Fail(added, "redefinition of key")
             ELSE Push([added EXCEPT !.keys = (dk :> k) @@ @],
                       Frame("expectEnd", start.Name, NoObj, ""))

\* the part of decodeKey before expectEnd, which then runs as a frame
decodeKey(d, start) ==
    LET k0 == AddAttrs("key", ZeroKey, start.Attr)
        k == IF k0.For = "" THEN [k0 EXCEPT !.For = KindAll] ELSE k0
        dk == docKey(k.ID, k.For)
        added == [d EXCEPT !.doc.Keys = Append(@, k)]
    IN  IF k.For = KindAll
        THEN IF k.ID \in DOMAIN d.keysAll
             THEN Fail(d, "redefinition of key")
             ELSE Push([added EXCEPT !.keysAll = (k.ID :> k) @@ @],
                       Frame("expectEnd", start.Name, NoObj, ""))
        ELSE IF dk \in DOMAIN d.keys
             THEN Fail(d, "redefinition of key")
             ELSE Push([added EXCEPT !.keys = (dk :> k) @@ @],
                       Frame("expectEnd", start.Name, NoObj, ""))

\* addID that records the id without looking it up
addIDNoCheck(ids, id) ==
    IF id = "" THEN [ids |-> ids, err |-> Nil]
    ELSE [ids |-> ids \cup {id}, err |-> Nil]

\* addID: the new id set and the error
addID(ids, id) ==
    IF id = "" THEN [ids |-> ids, err |-> Nil]
    ELSE IF id \in ids THEN [ids |-> ids, err |-> "redefinition of id"]
    ELSE [ids |-> ids \cup {id}, err |-> Nil]

\* decodeGraph, decodeNode and decodeEdge up to their token loop
decodeObject(d, kind, fn, zero, start) ==
    LET x == AddAttrs(kind, zero, start.Attr)
        r == addID(d.ids, x.ID)
    IN  IF r.err # Nil THEN Fail(d, r.err)
        ELSE Push([d EXCEPT !.ids = r.ids], Frame(fn, start.Name, x, ""))

decodeGraph(d, start) == decodeObject(d, "graph", "decodeGraphNodes", ZeroGraph, start)

decodeNode(d, start) == decodeObject(d, "node", "decodeNode", ZeroNode, start)

decodeEdge(d, start) == decodeObject(d, "edge", "decodeEdge", ZeroEdge, start)

\* decodeData with one flat key namespace: the scope of a declaration is ignored
decodeDataAnyScope(d, kind, start) ==
    LET data == AddAttrs("data", ZeroData, start.Attr)
    IN  IF (\A dk \in DOMAIN d.keys : dk.name # data.Key) /\ data.Key \notin DOMAIN d.keysAll
        THEN Fail(d, "unexpected attr")
        ELSE Push(d, Frame("decodeData", start.Name, data, kind))

\* decodeData that looks only in the table of its own scope
decodeDataScopedOnly(d, kind, start) ==
    LET data == AddAttrs("data", ZeroData, start.Attr)
    IN  IF docKey(data.Key, kind) \notin DOMAIN d.keys
        THEN Fail(d, "unexpected attr")
        ELSE Push(d, Frame("decodeData", start.Name, data, kind))

\* decodeData up to its capture loop
decodeData(d, kind, start) ==
    LET data == AddAttrs("data", ZeroData, start.Attr)
    IN  IF docKey(data.Key, kind) \notin DOMAIN d.keys /\ data.Key \notin DOMAIN d.keysAll
        THEN Fail(d, "unexpected attr")
        ELSE Push(d, Frame("decodeData", start.Name, data, kind))

\* The top frame returns without error: its caller stores the result.
Return(d) ==
    LET c == Top(d)
        rest == Pop(d.stack)
        n == Len(rest)
        p == rest[n]
    IN  CASE c.fn = "DecodeFrom" -> [d EXCEPT !.stack = <<>>]
          [] c.fn = "expectEnd" -> [d EXCEPT !.stack = rest]
          [] c.fn = "decodeGraphNodes" /\ p.fn = "DecodeFrom" ->
                [d EXCEPT !.stack = rest, !.doc.Graphs = Append(@, c.obj)]
          [] c.fn = "decodeGraphNodes" /\ p.fn = "decodeNode" ->
                [d EXCEPT !.stack = [rest EXCEPT ![n].obj.Graphs = Append(@, c.obj)]]
          [] c.fn = "decodeNode" ->
                [d EXCEPT !.stack = [rest EXCEPT ![n].obj.Nodes = Append(@, c.obj)]]
          [] c.fn = "decodeEdge" ->
                [d EXCEPT !.stack = [rest EXCEPT ![n].obj.Edges = Append(@, c.obj)]]
          [] c.fn = "decodeData" /\ p.fn = "DecodeFrom" ->
                [d EXCEPT !.stack = rest, !.doc.Data = Append(@, c.obj)]
          [] c.fn = "decodeData" /\ p.fn # "DecodeFrom" ->
                [d EXCEPT !.stack = [rest EXCEPT ![n].obj.Data = Append(@, c.obj)]]

\* startGraphML that looks at the local name of the root only
startGraphMLAnySpace(d, t) ==
    CASE canSkip(t) -> d
      [] t.type = "ProcInst" -> [d EXCEPT !.doc.Instr = t]
      [] t.type = "StartElement" /\ t.Name.Local = "graphml" ->
            [d EXCEPT !.doc.Attrs = t.Attr,
                      !.stack = <<Frame("DecodeFrom", t.Name, NoObj, "")>>]
      [] OTHER -> Fail(d, "unexpected token")

startGraphML(d, t) ==
    CASE canSkip(t) -> d
      [] t.type = "ProcInst" -> [d EXCEPT !.doc.Instr = t]
      [] t.type = "StartElement" /\ t.Name.Local = "graphml" /\ t.Name.Space = Namespace ->
            [d EXCEPT !.doc.Attrs = t.Attr,
                      !.stack = <<Frame("DecodeFrom", t.Name, NoObj, "")>>]
      [] OTHER -> Fail(d, "unexpected token")

\* the child dispatch with the node loop's graph case left in the edge loop
ChildLax(d, fn, t) ==
    LET l == t.Name.Local
    IN  CASE fn = "DecodeFrom" /\ l = "key" -> decodeKey(d, t)
          [] fn = "DecodeFrom" /\ l = "graph" -> decodeGraph(d, t)
          [] fn = "DecodeFrom" /\ l = "data" -> decodeData(d, KindGraphML, t)
          [] fn = "decodeGraphNodes" /\ l = "data" -> decodeData(d, KindGraph, t)
          [] fn = "decodeGraphNodes" /\ l = "node" -> decodeNode(d, t)
          [] fn = "decodeGraphNodes" /\ l = "edge" -> decodeEdge(d, t)
          [] fn = "decodeNode" /\ l = "data" -> decodeData(d, KindNode, t)
          [] fn = "decodeNode" /\ l = "graph" -> decodeGraph(d, t)
          [] fn = "decodeEdge" /\ l = "data" -> decodeData(d, KindEdge, t)
          [] fn = "decodeEdge" /\ l = "graph" -> decodeGraph(d, t)
          [] OTHER -> Fail(d, "unknown element")

\* the child dispatch of the four element loops
Child(d, fn, t) ==
    LET l == t.Name.Local
    IN  CASE fn = "DecodeFrom" /\ l = "key" -> decodeKey(d, t)
          [] fn = "DecodeFrom" /\ l = "graph" -> decodeGraph(d, t)
          [] fn = "DecodeFrom" /\ l = "data" -> decodeData(d, KindGraphML, t)
          [] fn = "decodeGraphNodes" /\ l = "data" -> decodeData(d, KindGraph, t)
          [] fn = "decodeGraphNodes" /\ l = "node" -> decodeNode(d, t)
          [] fn = "decodeGraphNodes" /\ l = "edge" -> decodeEdge(d, t)
          [] fn = "decodeNode" /\ l = "data" -> decodeData(d, KindNode, t)
          [] fn = "decodeNode" /\ l = "graph" -> decodeGraph(d, t)
          [] fn = "decodeEdge" /\ l = "data" -> decodeData(d, KindEdge, t)
          [] OTHER -> Fail(d, "unknown element")

\* one turn of the token loop of DecodeFrom, decodeGraphNodes, decodeNode, decodeEdge
ElementLoop(d, t) ==
    CASE canSkip(t) -> d
      [] t.type = "StartElement" ->
            IF t.Name.Space # Namespace THEN Fail(d, "unexpected element")
            ELSE Child(d, Top(d).fn, t)
      [] t.type = "EndElement" /\ t.Name = Top(d).start -> Return(d)
      [] OTHER -> Fail(d, "unexpected token")

\* expectEnd that passes over every event up to the end tag
expectEndLenient(d, t) ==
    IF t.type = "EndElement" /\ t.Name = Top(d).start THEN Return(d) ELSE d

expectEnd(d, t) ==
    CASE canSkip(t) -> d
      [] t.type = "EndElement" /\ t.Name = Top(d).start -> Return(d)
      [] OTHER -> Fail(d, "unexpected token")

\* one turn of the capture loop of decodeData
CaptureLoop(d, t) ==
    IF t.type = "EndElement" /\ t.Name = Top(d).start THEN Return(d)
    ELSE [d EXCEPT !.stack[Len(d.stack)].obj.Data = Append(@, t)]

\* d.token() returned (t, nil) to the loop that is running
OnToken(d, t) ==
    CASE Top(d).fn = "startGraphML" -> startGraphML(d, t)
      [] Top(d).fn = "expectEnd" -> expectEnd(d, t)
      [] Top(d).fn = "decodeData" -> CaptureLoop(d, t)
      [] OTHER -> ElementLoop(d, t)

\* the capture loop of decodeData taking io.EOF for the end of the payload
OnEOFEndsData(d) ==
    IF Top(d).fn = "decodeData" THEN Return(d) ELSE Fail(d, "io.ErrUnexpectedEOF")

\* d.token() returned io.EOF: every loop answers io.ErrUnexpectedEOF
OnEOF(d) == Fail(d, "io.ErrUnexpectedEOF")

\* d.token() returned another error: every loop passes it on
OnError(d, e) == Fail(d, e)

\* the whole pass over a given event stream, ended by io.EOF
RECURSIVE DecodeStream(_, _)
DecodeStream(d, s) ==
    IF ~Running(d) THEN d
    ELSE IF s = <<>> THEN OnEOF(d)
    ELSE DecodeStream(OnToken(d, Head(s)), Tail(s))

NilDoc == [nil |-> TRUE]

\* DecodeFrom that hands out b.doc whatever the error
ResultPartial(d) == [doc |-> d.doc, err |-> d.err]

\* the package-level DecodeFrom: (*Document, error)
Result(d) == IF d.err # Nil THEN [doc |-> NilDoc, err |-> d.err]
             ELSE [doc |-> d.doc, err |-> Nil]

Decode(s) == Result(DecodeStream(NewDocDecoder, s))

\* ------------------------------------------------------------- encoder
\* encodeData: every Data as start, its payload unchanged, end
RECURSIVE encodeData(_)
encodeData(data) ==
    IF data = <<>> THEN <<>>
    ELSE <<StartElement(mlName("data"), DataAttrs(Head(data)))>>
           \o Head(data).Data
           \o <<EndElement(mlName("data"))>>
           \o encodeData(Tail(data))

RECURSIVE encodeEdges(_)
encodeEdges(edges) ==
    IF edges = <<>> THEN <<>>
    ELSE <<StartElement(mlName("edge"), EdgeAttrs(Head(edges)))>>
           \o encodeData(Head(edges).Data)
           \o <<EndElement(mlName("edge"))>>
           \o encodeEdges(Tail(edges))

RECURSIVE encodeGraphs(_), encodeNodes(_)
\* encodeGraph that writes the edges before the nodes
encodeGraphsEdgesFirst(graphs) ==
    IF graphs = <<>> THEN <<>>
    ELSE <<StartElement(mlName("graph"), GraphAttrs(Head(graphs)))>>
           \o encodeData(Head(graphs).Data)
           \o encodeEdges(Head(graphs).Edges)
           \o encodeNodes(Head(graphs).Nodes)
           \o <<EndElement(mlName("graph"))>>
           \o encodeGraphs(Tail(graphs))

\* encodeGraph over a list of graphs
encodeGraphs(graphs) ==
    IF graphs = <<>> THEN <<>>
    ELSE <<StartElement(mlName("graph"), GraphAttrs(Head(graphs)))>>
           \o encodeData(Head(graphs).Data)
           \o encodeNodes(Head(graphs).Nodes)
           \o encodeEdges(Head(graphs).Edges)
           \o <<EndElement(mlName("graph"))>>
           \o encodeGraphs(Tail(graphs))

\* encodeNode over a list of nodes
encodeNodes(nodes) ==
    IF nodes = <<>> THEN <<>>
    ELSE <<StartElement(mlName("node"), NodeAttrs(Head(nodes)))>>
           \o encodeData(Head(nodes).Data)
           \o encodeGraphs(Head(nodes).Graphs)
           \o <<EndElement(mlName("node"))>>
           \o encodeNodes(Tail(nodes))

\* startEnd for every key
RECURSIVE encodeKeys(_)
encodeKeys(keys) ==
    IF keys = <<>> THEN <<>>
    ELSE <<StartElement(mlName("key"), KeyAttrs(Head(keys))), EndElement(mlName("key"))>>
           \o encodeKeys(Tail(keys))

\* the events docEncoder.Encode hands to d.token, in order
Encode(doc) ==
    <<doc.Instr>>
      \o <<StartElement(mlName("graphml"), doc.Attrs)>>
      \o encodeKeys(doc.Keys)
      \o encodeGraphs(doc.Graphs)
      \o encodeData(doc.Data)
      \o <<EndElement(mlName("graphml"))>>

\* A docEncoder on a sink that rejects its failAt-th event (0: accepts all):
\* the calls made on the sink in order, the events the sink took, and d.err
NewDocEncoder == [calls |-> <<>>, events |-> <<>>, err |-> Nil]

Flush == [type |-> "Flush"]

\* docEncoder.token: EncodeToken runs only while d.err is nil
token(d, t, failAt) ==
    IF d.err = Nil
    THEN LET rejected == Len(d.calls) + 1 = failAt
         IN  [calls |-> Append(d.calls, t),
              events |-> IF rejected THEN d.events ELSE Append(d.events, t),
              err |-> IF rejected THEN "sink error" ELSE Nil]
    ELSE d

\* docEncoder.Encode that drops the errors of its steps
RECURSIVE EncodeEventsKeepGoing(_, _, _)
EncodeEventsKeepGoing(d, events, failAt) ==
    IF events = <<>> THEN d
    ELSE LET rejected == Len(d.calls) + 1 = failAt
             e == [calls |-> Append(d.calls, Head(events)),
                   events |-> IF rejected THEN d.events ELSE Append(d.events, Head(events)),
                   err |-> IF rejected THEN "sink error" ELSE d.err]
         IN  EncodeEventsKeepGoing(e, Tail(events), failAt)

\* docEncoder.Encode: the events go through d.token one by one, and the
\* first error a step returns is returned at once
RECURSIVE EncodeEvents(_, _, _)
EncodeEvents(d, events, failAt) ==
    IF events = <<>> THEN d
    ELSE LET e == token(d, Head(events), failAt)
         IN  IF e.err # Nil THEN e ELSE EncodeEvents(e, Tail(events), failAt)

\* EncodeTo that flushes on every path
EncodeToDeferFlush(doc, failAt) ==
    LET d == EncodeEvents(NewDocEncoder, Encode(doc), failAt)
    IN  [d EXCEPT !.calls = Append(@, Flush)]

\* EncodeTo: the error of Encode, else Flush
EncodeTo(doc, failAt) ==
    LET d == EncodeEvents(NewDocEncoder, Encode(doc), failAt)
    IN  IF d.err # Nil THEN d ELSE [d EXCEPT !.calls = Append(@, Flush)]

\* --------------------------------------------------- the written stream
\* What xml.NewDecoder reads back from the events xml.NewEncoder wrote: an
\* element name without a namespace takes the default namespace declared by
\* the nearest enclosing xmlns attribute.
RECURSIVE DefaultSpace(_, _)
DefaultSpace(attr, inherited) ==
    IF attr = <<>> THEN inherited
    ELSE DefaultSpace(Tail(attr),
                      IF Head(attr).Name = Name("", "xmlns") THEN Head(attr).Value
                      ELSE inherited)

Translate(name, space) == IF name.Space = "" THEN Name(space, name.Local) ELSE name

RECURSIVE ReadBack(_, _)
ReadBack(events, spaces) ==
    IF events = <<>> THEN <<>>
    ELSE LET t == Head(events)
             cur == IF spaces = <<>> THEN "" ELSE Head(spaces)
         IN  CASE t.type = "StartElement" ->
                    LET ns == DefaultSpace(t.Attr, cur)
                    IN  <<[t EXCEPT !.Name = Translate(t.Name, ns)]>>
                          \o ReadBack(Tail(events), <<ns>> \o spaces)
               [] t.type = "EndElement" ->
                    <<[t EXCEPT !.Name = Translate(t.Name, cur)]>>
                      \o ReadBack(Tail(events), IF spaces = <<>> THEN <<>> ELSE Tail(spaces))
               [] OTHER -> <<t>> \o ReadBack(Tail(events), spaces)

\* ------------------------------------------------------ the token source
xmlns == newAttr("", "xmlns", Namespace)

ML(local) == Name(Namespace, local)

RootTokens ==
    { StartElement(ML("graphml"), <<xmlns>>),
      StartElement(ML("graphml"), <<newAttr("xmlns", "g", Namespace)>>),
      StartElement(Name("", "graphml"), <<>>) }

KeyTokens ==
    { StartElement(ML("key"), <<newAttr("", "id", "d0")>>),
      StartElement(ML("key"), <<newAttr("", "id", "d0"), newAttr("", "for", "all")>>),
      StartElement(ML("key"), <<newAttr("", "id", "d0"), newAttr("", "for", "node")>>),
      StartElement(ML("key"), <<newAttr("", "id", "d0"), newAttr("", "for", "edge")>>),
      StartElement(ML("key"), <<newAttr("", "attr.name", "w")>>),
      StartElement(ML("key"), <<newAttr("", "id", "d0"), newAttr("", "for", "graph"),
                                newAttr("", "attr.name", "w"), newAttr("", "attr.type", "int"),
                                newAttr("", "yfiles.type", "x")>>) }

GraphTokens ==
    { StartElement(ML("graph"), <<>>),
      StartElement(ML("graph"), <<newAttr("", "id", "a"), newAttr("", "parse.order", "nodesfirst"),
                                  newAttr("", "edgedefault", "directed")>>) }

NodeTokens ==
    { StartElement(ML("node"), <<>>),
      StartElement(ML("node"), <<newAttr("", "id", "a")>>),
      StartElement(ML("node"), <<newAttr(OtherSpace, "id", "b"), newAttr("", "shape", "r")>>) }

EdgeTokens ==
    { StartElement(ML("edge"), <<>>),
      StartElement(ML("edge"), <<newAttr("", "id", "a"), newAttr("", "source", "a"),
                                 newAttr("", "weight", "1"), newAttr("", "target", "b")>>) }

DataTokens ==
    { StartElement(ML("data"), <<newAttr("", "key", "d0"), newAttr("", "time", "1")>>),
      StartElement(ML("data"), <<newAttr("", "key", "d1")>>) }

ForeignTokens ==
    { StartElement(ML("foo"), <<>>),
      StartElement(Name(OtherSpace, "node"), <<>>) }

EndTokens ==
    { EndElement(ML(l)) : l \in {"graphml", "key", "graph", "node", "edge", "data", "foo"} }

OtherTokens ==
    { Comment, CharData(<<" ">>), CharData(<<"x">>), ProcInst("xml"), Directive }

Tokens ==
    RootTokens \cup KeyTokens \cup GraphTokens \cup NodeTokens \cup EdgeTokens
      \cup DataTokens \cup ForeignTokens \cup EndTokens \cup OtherTokens

\* what d.token() answers instead of an event: io.EOF, or an error of the source
EOF == [type |-> "EOF"]

SourceError == [type |-> "Error"]

\* ------------------------------------------------------------ behaviour
NotReturned == [pending |-> TRUE]

NoOutput == [pending |-> TRUE]

Init ==
    /\ b = NewDocDecoder
    /\ consumed = <<>>
    /\ ret = NotReturned
    /\ out = NoOutput
    /\ unread = <<>>
    /\ readers = <<>>

\* what DecodeFrom has returned once the pass is over
Returned(d) == IF Running(d) THEN NotReturned ELSE Result(d)

\* the source may still hand out t
CanSupply(t) ==
    /\ Len(consumed) < MaxTokens
    /\ (Top(b).fn = "decodeData" /\ Len(Top(b).obj.Data) >= MaxPayload)
          => (t.type = "EndElement" /\ t.Name = Top(b).start)

\* d.token() yields the next event t of the stream
Token(t) ==
    /\ Running(b)
    /\ CanSupply(t)
    /\ b' = OnToken(b, t)
    /\ consumed' = Append(consumed, [tok |-> t, fn |-> Top(b).fn])
    /\ ret' = Returned(b')
    /\ UNCHANGED <<out, unread, readers>>

\* d.token() yields io.EOF
TokenEOF ==
    /\ Running(b)
    /\ b' = OnEOF(b)
    /\ consumed' = Append(consumed, [tok |-> EOF, fn |-> Top(b).fn])
    /\ ret' = Returned(b')
    /\ UNCHANGED <<out, unread, readers>>

\* d.token() yields an error of the source
TokenError ==
    /\ Running(b)
    /\ b' = OnError(b, "source error")
    /\ consumed' = Append(consumed, [tok |-> SourceError, fn |-> Top(b).fn])
    /\ ret' = Returned(b')
    /\ UNCHANGED <<out, unread, readers>>

\* a call has returned a document, or a caller holds one
Accepted == ret # NotReturned /\ ret.doc # NilDoc

\* the caller encodes the document
EncodeDoc(failAt) ==
    /\ ret # NotReturned
    /\ ret.doc # NilDoc
    /\ out = NoOutput
    /\ failAt <= Len(Encode(ret.doc))
    /\ out' = EncodeTo(ret.doc, failAt)
    /\ UNCHANGED <<b, consumed, ret, unread, readers>>

\* events a stream may hold after the root element
UnreadTokens == { StartElement(ML("graphml"), <<xmlns>>), EndElement(ML("graphml")) }

\* the stream holds t after the events Decode pulled: Decode returns at the
\* root's end tag and never asks the source again
Trailing(t) ==
    /\ Accepted
    /\ Len(unread) < MaxUnread
    /\ unread' = Append(unread, t)
    /\ UNCHANGED <<b, consumed, ret, out, readers>>

Next ==
    \/ \E t \in Tokens : Token(t)
    \/ TokenEOF
    \/ TokenError
    \/ \E failAt \in 0..(2 * MaxTokens + 2) : EncodeDoc(failAt)
    \/ \E t \in UnreadTokens : Trailing(t)

Spec == Init /\ [][Next]_vars

\* one decode pass on its own: DecodeFrom asks the source again and again,
\* and the source answers every call
PassTokens ==
    { StartElement(ML("graphml"), <<xmlns>>),
      StartElement(ML("key"), <<newAttr("", "id", "d0")>>),
      StartElement(ML("graph"), <<>>),
      StartElement(ML("node"), <<newAttr("", "id", "a")>>),
      StartElement(ML("edge"), <<>>),
      StartElement(ML("data"), <<newAttr("", "key", "d0"), newAttr("", "time", "1")>>),
      StartElement(ML("foo"), <<>>),
      Comment, CharData(<<"x">>) }
      \cup { EndElement(ML(l)) : l \in {"graphml", "key", "graph", "node", "edge", "data"} }

Pull ==
    \/ \E t \in PassTokens : Token(t)
    \/ TokenEOF
    \/ TokenError

SpecPass == Init /\ [][Pull]_vars /\ WF_vars(Pull)

\* ------------------------------------------- documents built by a caller
Nested == <<StartElement(Name("", "v"), <<>>), CharData(<<"x">>), EndElement(Name("", "v"))>>

DataOf(key, payload) == [ZeroData EXCEPT !.Key = key, !.Data = payload]

\* lists of Data; dX is a key no document declares
DataLists == { <<>>, <<DataOf("dX", <<CharData(<<"x">>)>>)>> }

\* two keys of one id and one scope
KeyLists ==
    { <<>>,
      <<[ZeroKey EXCEPT !.ID = "d0", !.For = KindNode, !.Name = "w"],
        [ZeroKey EXCEPT !.ID = "d0", !.For = KindNode, !.Type = "int"]>> }

EdgeLists ==
    { <<>> } \cup
    { <<[ZeroEdge EXCEPT !.ID = "a", !.Source = "a", !.Target = "b", !.Data = dl]>> : dl \in DataLists }

SubGraph == [ZeroGraph EXCEPT !.ID = "a", !.Nodes = <<[ZeroNode EXCEPT !.ID = "b"]>>]

\* lists of nodes; the second node repeats the id of the first
NodeLists ==
    { <<>> } \cup
    { <<[ZeroNode EXCEPT !.ID = "a", !.Data = dl, !.Graphs = <<SubGraph>>],
        [ZeroNode EXCEPT !.ID = "a"]>> : dl \in DataLists }

GraphLists ==
    { <<>> } \cup
    { <<[ZeroGraph EXCEPT !.ID = "a", !.EdgeDefault = "directed", !.Data = dl,
                          !.Nodes = nl, !.Edges = el]>> :
          dl \in DataLists, nl \in NodeLists, el \in EdgeLists \ {<<>>} } \cup
    { <<[ZeroGraph EXCEPT !.ID = "b", !.Nodes = nl], SubGraph>> : nl \in NodeLists \ {<<>>} }

\* the documents a caller hands to the encoder: no check ties ids or data keys
Documents ==
    { [Instr |-> i, Attrs |-> <<xmlns>>, Keys |-> ks, Graphs |-> gs, Data |-> dl] :
          i \in {EmptyInstr, ProcInst("xml")}, ks \in KeyLists, gs \in GraphLists,
          dl \in { <<>>, <<DataOf("d0", Nested), DataOf("d0", <<>>)>> } }

\* every Data of a document: of the graphs first, then of the document
RECURSIVE DataOfGraphs(_), DataOfNodes(_), DataOfEdges(_)
DataOfGraphs(graphs) ==
    IF graphs = <<>> THEN <<>>
    ELSE Head(graphs).Data \o DataOfNodes(Head(graphs).Nodes)
           \o DataOfEdges(Head(graphs).Edges) \o DataOfGraphs(Tail(graphs))

DataOfNodes(nodes) ==
    IF nodes = <<>> THEN <<>>
    ELSE Head(nodes).Data \o DataOfGraphs(Head(nodes).Graphs) \o DataOfNodes(Tail(nodes))

DataOfEdges(edges) ==
    IF edges = <<>> THEN <<>>
    ELSE Head(edges).Data \o DataOfEdges(Tail(edges))

AllData(doc) == DataOfGraphs(doc.Graphs) \o doc.Data

\* ------------------------------------------------------- payload readers
\* Data.Reader: a tokenReader over the payload
Reader(d) == [tokens |-> d.Data]

\* tokenReader.Token that leaves the reader where it is
tokenReaderTokenStuck(r) ==
    IF Len(r.tokens) = 0 THEN [r |-> r, t |-> Nil, err |-> "io.EOF"]
    ELSE [r |-> r, t |-> r.tokens[1], err |-> Nil]

\* tokenReader.Token: the next event and the reader after the call
tokenReaderToken(r) ==
    IF Len(r.tokens) = 0 THEN [r |-> r, t |-> Nil, err |-> "io.EOF"]
    ELSE [r |-> [tokens |-> Tail(r.tokens)], t |-> r.tokens[1], err |-> Nil]

\* Token calls made so far on all readers
RECURSIVE Reads(_)
Reads(rs) == IF rs = <<>> THEN 0 ELSE Len(Head(rs).got) + Reads(Tail(rs))

\* the caller takes a reader of the i-th Data of the document
NewReader(i) ==
    /\ Accepted
    /\ Len(readers) < MaxReaders
    /\ i \in 1..Len(AllData(ret.doc))
    /\ readers' = Append(readers, [of |-> i, r |-> Reader(AllData(ret.doc)[i]), got |-> <<>>])
    /\ UNCHANGED <<b, consumed, ret, out, unread>>

\* the caller calls Token on its k-th reader
ReaderToken(k) ==
    /\ k \in 1..Len(readers)
    /\ Reads(readers) < MaxReads
    /\ LET res == tokenReaderToken(readers[k].r)
       IN  readers' = [readers EXCEPT ![k] = [of |-> @.of, r |-> res.r,
                                             got |-> Append(@.got, [t |-> res.t, err |-> res.err])]]
    /\ UNCHANGED <<b, consumed, ret, out, unread>>

\* a caller holds a document of its own making
InitDoc ==
    /\ b = NewDocDecoder
    /\ consumed = <<>>
    /\ ret \in { [doc |-> d, err |-> Nil] : d \in Documents }
    /\ out = NoOutput
    /\ unread = <<>>
    /\ readers = <<>>

NextDoc == \E failAt \in 0..Len(Encode(ret.doc)) : EncodeDoc(failAt)

SpecDoc == InitDoc /\ [][NextDoc]_vars

NextReader ==
    \/ \E i \in 1..Len(AllData(ret.doc)) : NewReader(i)
    \/ \E k \in 1..MaxReaders : ReaderToken(k)

SpecReader == InitDoc /\ [][NextReader]_vars

\* ------------------------------------------------- reading the history
\* consumed records every answer of d.token() so far with the loop that received it.
Last == consumed[Len(consumed)]

Pulled == Len(consumed) > 0

\* the value a start tag gives for a local attribute name ("" when absent)
RECURSIVE AttrValue(_, _)
AttrValue(attr, local) ==
    IF attr = <<>> THEN ""
    ELSE IF attr[Len(attr)].Name.Local = local THEN attr[Len(attr)].Value
    ELSE AttrValue(SubSeq(attr, 1, Len(attr) - 1), local)

ElementLoops == {"DecodeFrom", "decodeGraphNodes", "decodeNode", "decodeEdge"}

\* the kind of the element whose children a loop reads
KindOfLoop(fn) ==
    CASE fn = "DecodeFrom" -> KindGraphML
      [] fn = "decodeGraphNodes" -> KindGraph
      [] fn = "decodeNode" -> KindNode
      [] fn = "decodeEdge" -> KindEdge

\* c is a start tag with this local name, in the GraphML namespace, read as a child
IsChild(c, local) ==
    /\ c.fn \in ElementLoops
    /\ c.tok.type = "StartElement"
    /\ c.tok.Name = ML(local)

\* the events of the stream that are not dropped: everything from the root's
\* start tag on, less the comments and blank text outside data payloads
Kept ==
    LET keep(c) == /\ c.fn = "startGraphML" => c.tok.type = "StartElement"
                   /\ c.fn # "decodeData" => ~canSkip(c.tok)
        sel == SelectSeq(consumed, keep)
    IN  [i \in 1..Len(sel) |-> sel[i].tok]

\* an event without the namespace of its element name
Unqualified(t) ==
    IF t.type \in {"StartElement", "EndElement"} THEN [t EXCEPT !.Name.Space = ""] ELSE t

Unqualify(events) == [i \in 1..Len(events) |-> Unqualified(events[i])]

\* ------------------------------------------------------------------ C1
\* C1: for every stream Decode accepts, Encode of the Document succeeds on a
\* sink that accepts every event, and decoding what the encoder wrote
\* succeeds and yields a Document equal to the first.
RoundTripDeepEqual ==
    Accepted =>
        LET o == EncodeTo(ret.doc, 0)
        IN  /\ o.err = Nil
            /\ Decode(ReadBack(o.events, <<>>)) = [doc |-> ret.doc, err |-> Nil]

\* ------------------------------------------------------------------ C2
\* C2: for every stream Decode accepts, the events Encode writes after the
\* processing instruction are the stream's events less the comments and blank
\* text outside data payloads: same elements, same nesting, same sibling
\* order, same attributes in the same order.
RoundTripSameEvents ==
    Accepted => Unqualify(Tail(Encode(ret.doc))) = Unqualify(Kept)

\* c is a key start tag read as a child of the root
IsKeyDecl(c) == IsChild(c, "key") /\ c.fn = "DecodeFrom"

\* ------------------------------------------------------------------ C3
\* a key declaration for identifier id, usable under kind, lies before the last event
DeclaredEarlier(id, kind) ==
    \E i \in 1..(Len(consumed) - 1) :
        /\ consumed[i].tok.type = "StartElement"
        /\ consumed[i].tok.Name = ML("key")
        /\ AttrValue(consumed[i].tok.Attr, "id") = id
        /\ AttrValue(consumed[i].tok.Attr, "for") \in {kind, KindAll, ""}

\* the last event is a data start tag read as a child element
DataRead == Pulled /\ IsChild(Last, "data")

\* C3: a data element under a parent of kind K whose key identifier has no
\* earlier key declaration for scope K or for scope all/unset makes Decode
\* fail with the unknown-attribute error.
UnknownAttributeRejected ==
    (DataRead /\ ~DeclaredEarlier(AttrValue(Last.tok.Attr, "key"), KindOfLoop(Last.fn)))
        => (b.err = "unexpected attr" /\ ret = [doc |-> NilDoc, err |-> "unexpected attr"])

\* a data under an edge is rejected though its key is declared for nodes
UnknownAttributeWitness ==
    /\ DataRead
    /\ Last.fn = "decodeEdge"
    /\ DeclaredEarlier(AttrValue(Last.tok.Attr, "key"), KindNode)
    /\ ~DeclaredEarlier(AttrValue(Last.tok.Attr, "key"), KindEdge)
    /\ b.err = "unexpected attr"

\* ------------------------------------------------------------------ C4
\* a key for identifier id with scope all or no scope was declared under the root
DeclaredForAll(id) ==
    \E i \in 1..(Len(consumed) - 1) :
        /\ IsKeyDecl(consumed[i])
        /\ AttrValue(consumed[i].tok.Attr, "id") = id
        /\ AttrValue(consumed[i].tok.Attr, "for") \in {KindAll, ""}

\* C4: once a key with no scope or scope all is declared, a data element that
\* references it passes the key check under the root, a graph, a node and an
\* edge: its payload is captured.
AllScopeVisible ==
    (DataRead /\ DeclaredForAll(AttrValue(Last.tok.Attr, "key")))
        => (b.err = Nil /\ Top(b).fn = "decodeData" /\ Top(b).kind = KindOfLoop(Last.fn))

\* a data under an edge references a key declared for all
AllScopeWitness ==
    /\ DataRead
    /\ Last.fn = "decodeEdge"
    /\ DeclaredForAll(AttrValue(Last.tok.Attr, "key"))
    /\ Top(b).fn = "decodeData"

\* ------------------------------------------------------------------ C5
\* the scope a key start tag declares, unset counting as all
ScopeOf(t) == IF AttrValue(t.Attr, "for") = "" THEN KindAll ELSE AttrValue(t.Attr, "for")

\* the key start tags read under the root, in stream order
KeyDecls ==
    LET sel == SelectSeq(consumed, IsKeyDecl)
    IN  [i \in 1..Len(sel) |-> sel[i].tok]

\* the last event declares a key that an earlier declaration already declared
Redeclared ==
    /\ Pulled
    /\ IsKeyDecl(Last)
    /\ \E i \in 1..(Len(KeyDecls) - 1) :
          /\ AttrValue(KeyDecls[i].Attr, "id") = AttrValue(Last.tok.Attr, "id")
          /\ ScopeOf(KeyDecls[i]) = ScopeOf(Last.tok)

\* C5: Decode fails with the duplicate-key error exactly when a key
\* declaration repeats the identifier and scope of an earlier one (unset is
\* all); all other declarations are in Document.Keys in declaration order.
DuplicateKeyExactly ==
    /\ (b.err = "redefinition of key") <=> Redeclared
    /\ LET n == IF Redeclared THEN Len(KeyDecls) - 1 ELSE Len(KeyDecls)
       IN  /\ Len(b.doc.Keys) = n
           /\ \A i \in 1..n :
                 /\ b.doc.Keys[i].ID = AttrValue(KeyDecls[i].Attr, "id")
                 /\ b.doc.Keys[i].For = ScopeOf(KeyDecls[i])

\* two declarations of one identifier for different scopes are both stored
DuplicateKeyWitness ==
    /\ b.err = Nil
    /\ Len(b.doc.Keys) = 2
    /\ b.doc.Keys[1].ID = b.doc.Keys[2].ID
    /\ b.doc.Keys[1].For = KindNode
    /\ b.doc.Keys[2].For = KindEdge

\* ------------------------------------------------------------------ C6
\* c is a graph, node or edge start tag read where its kind is a permitted child
IsObject(c) ==
    \/ IsChild(c, "graph") /\ c.fn \in {"DecodeFrom", "decodeNode"}
    \/ IsChild(c, "node") /\ c.fn = "decodeGraphNodes"
    \/ IsChild(c, "edge") /\ c.fn = "decodeGraphNodes"

\* the last event is a graph, node or edge whose non-empty id an earlier one carries
IDReused ==
    /\ Pulled
    /\ IsObject(Last)
    /\ AttrValue(Last.tok.Attr, "id") # ""
    /\ \E i \in 1..(Len(consumed) - 1) :
          /\ IsObject(consumed[i])
          /\ AttrValue(consumed[i].tok.Attr, "id") = AttrValue(Last.tok.Attr, "id")

\* C6: Decode fails with the duplicate-identifier error when a graph, node or
\* edge carries the non-empty id of an earlier graph, node or edge, of any
\* kind and at any depth, and only then: elements without id never conflict.
DuplicateIDRejected ==
    /\ IDReused => ret = [doc |-> NilDoc, err |-> "redefinition of id"]
    /\ (b.err = "redefinition of id") => IDReused
    /\ (Pulled /\ IsObject(Last) /\ AttrValue(Last.tok.Attr, "id") = "")
          => (b.err = Nil /\ Top(b).obj.ID = "")

\* a subgraph inside a node reuses an id seen before
DuplicateIDWitness ==
    /\ IDReused
    /\ Last.fn = "decodeNode"
    /\ b.err = "redefinition of id"

\* ------------------------------------------------------------------ C7
\* the nesting table
Permitted(fn) ==
    CASE fn = "DecodeFrom" -> {"key", "graph", "data"}
      [] fn = "decodeGraphNodes" -> {"data", "node", "edge"}
      [] fn = "decodeNode" -> {"data", "graph"}
      [] fn = "decodeEdge" -> {"data"}

UnexpectedElement == {"unexpected element", "unknown element"}

\* the last event is a start tag read as a child of the root, a graph, a node or an edge
ChildRead == Pulled /\ Last.fn \in ElementLoops /\ Last.tok.type = "StartElement"

\* C7: a child element that the nesting table does not permit under its
\* parent, or that is outside the GraphML namespace, makes Decode fail with
\* an unexpected-element error; a permitted child does not.
NestingEnforced ==
    ChildRead =>
        IF Last.tok.Name.Space = Namespace /\ Last.tok.Name.Local \in Permitted(Last.fn)
        THEN b.err \notin UnexpectedElement
        ELSE b.err \in UnexpectedElement /\ ret = [doc |-> NilDoc, err |-> b.err]

\* a graph under an edge is rejected
NestingWitness ==
    /\ ChildRead
    /\ Last.fn = "decodeEdge"
    /\ Last.tok.Name = ML("graph")
    /\ b.err = "unknown element"

\* ------------------------------------------------------------------ C8
\* the index of the start tag of the data element whose capture loop read the last event
DataStart == CHOOSE i \in 1..Len(consumed) :
                /\ consumed[i].fn # "decodeData"
                /\ \A j \in (i + 1)..Len(consumed) : consumed[j].fn = "decodeData"

\* the events between that start tag and the last event
Between == [i \in 1..(Len(consumed) - DataStart - 1) |-> consumed[DataStart + i].tok]

\* how many elements of this name are left open by the events
RECURSIVE OpenCount(_, _)
OpenCount(events, name) ==
    IF events = <<>> THEN 0
    ELSE OpenCount(Tail(events), name)
           + (IF Head(events).type = "StartElement" /\ Head(events).Name = name THEN 1
              ELSE IF Head(events).type = "EndElement" /\ Head(events).Name = name THEN -1
              ELSE 0)

\* the capture loop of decodeData has just returned to the parent's loop
DataReturned ==
    /\ Pulled
    /\ Last.fn = "decodeData"
    /\ b.err = Nil
    /\ Top(b).fn # "decodeData"

\* the Data the parent stored last
StoredData == IF Top(b).fn = "DecodeFrom" THEN b.doc.Data[Len(b.doc.Data)]
              ELSE Top(b).obj.Data[Len(Top(b).obj.Data)]

\* C8: when decoding resumes in the parent, the end tag just read is the
\* matching end tag of the data element (every nested element of the same
\* name is closed), and the stored payload is exactly the events in between.
PayloadUntilMatchingEnd ==
    DataReturned =>
        /\ StoredData.Data = Between
        /\ OpenCount(Between, consumed[DataStart].tok.Name) = 0

\* ------------------------------------------------------------------ C9
\* the order the claim states: id, for, attr.name, attr.type, then the unrecognized
ClaimedKeyOrder(k) ==
    (IF k.ID # "" THEN <<newAttr("", "id", k.ID)>> ELSE <<>>)
      \o <<newAttr("", "for", k.For)>>
      \o (IF k.Name # "" THEN <<newAttr("", "attr.name", k.Name)>> ELSE <<>>)
      \o (IF k.Type # "" THEN <<newAttr("", "attr.type", k.Type)>> ELSE <<>>)
      \o k.Unrecognized

\* id, then the unrecognized, then for, attr.name, attr.type
AmendedKeyOrder(k) ==
    (IF k.ID # "" THEN <<newAttr("", "id", k.ID)>> ELSE <<>>)
      \o k.Unrecognized
      \o <<newAttr("", "for", k.For)>>
      \o (IF k.Name # "" THEN <<newAttr("", "attr.name", k.Name)>> ELSE <<>>)
      \o (IF k.Type # "" THEN <<newAttr("", "attr.type", k.Type)>> ELSE <<>>)

Encoded == out # NoOutput /\ out.err = Nil

\* every key is written as a start tag with these attributes and its end tag next
KeysWritten(order(_)) ==
    \A i \in 1..Len(ret.doc.Keys) :
        /\ out.events[2 * i + 1] = StartElement(mlName("key"), order(ret.doc.Keys[i]))
        /\ out.events[2 * i + 2] = EndElement(mlName("key"))

\* C9 as claimed: each Key is written as an empty element with attributes in
\* the order id, for, attr.name if non-empty, attr.type if non-empty, then
\* every unrecognized attribute in stored order.
KeyOrderClaimed == Encoded => KeysWritten(ClaimedKeyOrder)

\* C9 as amended: each Key is written as an empty element with attributes in
\* the order id if non-empty, every unrecognized attribute in stored order,
\* for, attr.name if non-empty, attr.type if non-empty.
KeyOrderAmended == Encoded => KeysWritten(AmendedKeyOrder)

\* a key with typed fields and an unrecognized attribute has been written
KeyOrderWitness ==
    /\ Encoded
    /\ \E i \in 1..Len(ret.doc.Keys) :
          /\ ret.doc.Keys[i].Unrecognized # <<>>
          /\ ret.doc.Keys[i].ID # ""
          /\ ret.doc.Keys[i].Name # ""

\* ------------------------------------------------------------------ C10
\* the root's end tag is the last event read, by the root's loop
RootClosed ==
    /\ Pulled
    /\ Last.fn = "DecodeFrom"
    /\ Last.tok.type = "EndElement"
    /\ b.stack = <<>>

\* C10: Decode returns a Document only once the root's end tag has been read
\* with no error; while it runs nothing is returned, and on every error it
\* returns no Document together with the error.
NoPartialDocument ==
    /\ Running(b) => ret = NotReturned
    /\ Accepted => (RootClosed /\ b.err = Nil /\ ret = [doc |-> b.doc, err |-> Nil])
    /\ b.err # Nil => ret = [doc |-> NilDoc, err |-> b.err]

\* a pass fails after keys and graphs were already stored in the document
NoPartialWitness ==
    /\ b.err # Nil
    /\ b.doc.Keys # <<>>
    /\ b.doc.Graphs # <<>>
    /\ ret # NotReturned
    /\ ret.doc = NilDoc

\* an event is a comment or text made of spaces only
IsBlank(t) ==
    \/ t.type = "Comment"
    \/ t.type = "CharData" /\ \A i \in 1..Len(t.text) : t.text[i] = " "

\* ------------------------------------------------------------------ C11
\* the source signalled end-of-stream
EndOfStream == Pulled /\ Last.tok = EOF

\* C11: when the source signals end-of-stream before the root's end tag has
\* been read, in whatever loop, Decode fails with io.ErrUnexpectedEOF and
\* returns no Document.
PrematureEndRejected ==
    EndOfStream => (b.err = "io.ErrUnexpectedEOF"
                    /\ ret = [doc |-> NilDoc, err |-> "io.ErrUnexpectedEOF"])

\* the stream ends inside a data payload that already holds events
PrematureEndWitness ==
    /\ EndOfStream
    /\ Last.fn = "decodeData"
    /\ Top(b).obj.Data # <<>>
    /\ b.err = "io.ErrUnexpectedEOF"

\* ------------------------------------------------------------------ C12
\* an event is the start tag of a valid root
IsRootStart(t) == t.type = "StartElement" /\ t.Name = Name(Namespace, "graphml")

\* the last event reached startGraphML and is neither skipped, nor a
\* processing instruction, nor a valid root
RootMalformed ==
    /\ Pulled
    /\ Last.fn = "startGraphML"
    /\ Last.tok \notin {EOF, SourceError}
    /\ ~IsBlank(Last.tok)
    /\ Last.tok.type # "ProcInst"
    /\ ~IsRootStart(Last.tok)

\* a valid root has been opened
RootOpened == \E i \in 1..Len(consumed) : IsRootStart(consumed[i].tok)

\* C12: the first event that is not a comment, blank text or processing
\* instruction makes Decode fail with the malformed-root error unless it is
\* the start tag graphml in the GraphML namespace; nothing is decoded before
\* a valid root is opened.
MalformedRootRejected ==
    /\ RootMalformed => ret = [doc |-> NilDoc, err |-> "unexpected token"]
    /\ ~RootOpened =>
          /\ b.doc.Keys = <<>> /\ b.doc.Graphs = <<>> /\ b.doc.Data = <<>>
          /\ b.keysAll = <<>> /\ b.keys = <<>> /\ b.ids = {}
          /\ b.stack = <<Frame("startGraphML", NoName, NoObj, "")>>

\* a root named graphml without the namespace is rejected
MalformedRootWitness ==
    /\ RootMalformed
    /\ Last.tok.type = "StartElement"
    /\ Last.tok.Name = Name("", "graphml")
    /\ b.err = "unexpected token"

\* ------------------------------------------------------------------ C19
\* c is a comment or blank text read outside every data payload
Immaterial(c) == c.fn # "decodeData" /\ IsBlank(c.tok)

\* the answers of the source without the immaterial events
Material ==
    LET sel == SelectSeq(consumed, LAMBDA c : ~Immaterial(c))
    IN  [i \in 1..Len(sel) |-> sel[i].tok]

\* the decoder run over a sequence of answers of the source
RECURSIVE Replay(_, _)
Replay(d, s) ==
    IF s = <<>> \/ ~Running(d) THEN d
    ELSE Replay(CASE Head(s) = EOF -> OnEOF(d)
                  [] Head(s) = SourceError -> OnError(d, "source error")
                  [] OTHER -> OnToken(d, Head(s)),
                Tail(s))

\* C19: comments and blank text outside data payloads do not influence
\* decoding: the decoder is in the state, and has returned the result, that
\* the same stream without these events gives; so two streams that differ
\* only in such events have the same outcome.
BlanksImmaterial ==
    /\ Replay(NewDocDecoder, Material) = b
    /\ Returned(Replay(NewDocDecoder, Material)) = ret

\* a key was decoded from a stream with a blank before the root and one inside the key
BlanksWitness ==
    /\ b.err = Nil
    /\ Len(b.doc.Keys) = 1
    /\ Len(b.stack) = 1
    /\ \E i \in 1..Len(consumed) : Immaterial(consumed[i]) /\ consumed[i].fn = "startGraphML"
    /\ \E i \in 1..Len(consumed) : Immaterial(consumed[i]) /\ consumed[i].fn = "expectEnd"

\* ------------------------------------------------------------------ C20
\* the last event came after a key's start tag and is neither blank nor the key's end tag
KeyNotEmpty ==
    /\ Pulled
    /\ Last.fn = "expectEnd"
    /\ Last.tok \notin {EOF, SourceError}
    /\ ~IsBlank(Last.tok)
    /\ Last.tok # EndElement(Name(Namespace, "key"))

\* C20: a key element must be empty: any event other than a comment or blank
\* text before the key's own end tag makes Decode fail, although the key was
\* accepted and stored.
KeyMustBeEmpty ==
    KeyNotEmpty => (ret = [doc |-> NilDoc, err |-> "unexpected token"] /\ b.doc.Keys # <<>>)

\* a child element inside a key makes the pass fail
KeyMustBeEmptyWitness ==
    /\ KeyNotEmpty
    /\ Last.tok.type = "StartElement"
    /\ b.err = "unexpected token"

\* ------------------------------------------------------------------ C14
Written == out # NoOutput

\* how many times the sink was asked to flush
Flushes == Len(SelectSeq(out.calls, LAMBDA c : c = Flush))

\* C14: EncodeTo asks the sink to flush exactly once, as its last call and
\* right after the root's end tag was written, when every write succeeded;
\* when a write fails it never asks for a flush.
FlushOnSuccessOnly ==
    Written =>
        IF out.err = Nil
        THEN /\ Flushes = 1
             /\ out.calls[Len(out.calls)] = Flush
             /\ out.calls[Len(out.calls) - 1] = EndElement(mlName("graphml"))
             /\ out.events = SubSeq(out.calls, 1, Len(out.calls) - 1)
        ELSE Flushes = 0

\* a write failed after the root was opened, and nothing was flushed
FlushWitness ==
    /\ Written
    /\ out.err # Nil
    /\ Len(out.events) >= 2
    /\ Flushes = 0

\* ------------------------------------------------------------------ C18
\* the attribute names an element kind maps to typed fields
Known(kind) ==
    CASE kind = "graph" -> {"id", "edgedefault"}
      [] kind = "node" -> {"id"}
      [] kind = "edge" -> {"id", "source", "target"}
      [] kind = "key" -> {"id", "for", "attr.name", "attr.type"}
      [] kind = "data" -> {"key"}

\* the attributes of a list whose local name the kind does not know
Unknown(kind, attr) == SelectSeq(attr, LAMBDA a : a.Name.Local \notin Known(kind))

\* the last event is a start tag that a loop has decoded into an element
ElementRead ==
    /\ ChildRead
    /\ b.err = Nil
    /\ Last.tok.Name.Local \in {"graph", "node", "edge", "key", "data"}

\* the element decoded from the last event
Element == IF Last.tok.Name.Local = "key" THEN b.doc.Keys[Len(b.doc.Keys)] ELSE Top(b).obj

\* the typed fields of an element against the attributes of its start tag
TypedFields(kind, x, attr) ==
    CASE kind = "graph" -> /\ x.ID = AttrValue(attr, "id")
                           /\ x.EdgeDefault = AttrValue(attr, "edgedefault")
      [] kind = "node" -> x.ID = AttrValue(attr, "id")
      [] kind = "edge" -> /\ x.ID = AttrValue(attr, "id")
                          /\ x.Source = AttrValue(attr, "source")
                          /\ x.Target = AttrValue(attr, "target")
      [] kind = "key" -> /\ x.ID = AttrValue(attr, "id")
                         /\ x.For = (IF AttrValue(attr, "for") = "" THEN KindAll
                                     ELSE AttrValue(attr, "for"))
                         /\ x.Name = AttrValue(attr, "attr.name")
                         /\ x.Type = AttrValue(attr, "attr.type")
      [] kind = "data" -> x.Key = AttrValue(attr, "key")

\* the attribute list an element produces for re-emission
AttrsOf(kind, x) ==
    CASE kind = "graph" -> GraphAttrs(x)
      [] kind = "node" -> NodeAttrs(x)
      [] kind = "edge" -> EdgeAttrs(x)
      [] kind = "key" -> KeyAttrs(x)
      [] kind = "data" -> DataAttrs(x)

\* C18: when an element is decoded, the attributes whose local name its kind
\* knows set the typed fields, the unrecognized list is exactly the other
\* attributes of the start tag in encountered order, and the attribute list
\* for re-emission holds these unrecognized attributes in that order.
AttributesAbsorbed ==
    ElementRead =>
        LET kind == Last.tok.Name.Local
        IN  /\ TypedFields(kind, Element, Last.tok.Attr)
            /\ Element.Unrecognized = Unknown(kind, Last.tok.Attr)
            /\ Unknown(kind, AttrsOf(kind, Element)) = Element.Unrecognized

\* a node whose id attribute carries a namespace and which has another attribute
AttributesWitness ==
    /\ ElementRead
    /\ Last.tok.Name.Local = "node"
    /\ Element.ID = "b"
    /\ Len(Element.Unrecognized) = 1

\* ------------------------------------------------------------------ C13
\* C13: Decode accepts a stream only when no further top-level element
\* follows the root element it read.
SingleRootOnly == Accepted => \A i \in 1..Len(unread) : unread[i].type # "StartElement"

\* ------------------------------------------------------------------ C15
\* the events the encoder handed to the sink
Sent == SelectSeq(out.calls, LAMBDA c : c # Flush)

SinkRejected == Written /\ Len(Sent) > Len(out.events)

\* two keys of one id, or two nodes of one id, or a Data whose key is not declared
Invalid(doc) ==
    \/ \E i, j \in 1..Len(doc.Keys) : i # j /\ doc.Keys[i].ID = doc.Keys[j].ID
    \/ \E i \in 1..Len(doc.Graphs) :
           \E j, k \in 1..Len(doc.Graphs[i].Nodes) :
               j # k /\ doc.Graphs[i].Nodes[j].ID = doc.Graphs[i].Nodes[k].ID
    \/ \E i \in 1..Len(AllData(doc)) :
           \A j \in 1..Len(doc.Keys) : doc.Keys[j].ID # AllData(doc)[i].Key

\* C15: when the sink rejects an event, the encode returns the sink's error,
\* the rejected event is the last one it sent and the events before it are
\* the ones the sink took; when the sink takes every event the encode
\* succeeds with the whole document written, whatever the document.
OnlySinkFailures ==
    Written =>
        IF SinkRejected
        THEN /\ out.err = "sink error"
             /\ Len(Sent) = Len(out.events) + 1
             /\ out.events = SubSeq(Sent, 1, Len(out.events))
        ELSE /\ out.err = Nil
             /\ out.events = Sent
             /\ Len(Sent) = Len(Encode(ret.doc))
             /\ Sent[Len(Sent)] = EndElement(mlName("graphml"))

\* the sink rejected an event of an invalid document with more events to come
OnlySinkFailuresWitness ==
    /\ SinkRejected
    /\ Invalid(ret.doc)
    /\ Len(out.events) >= 2
    /\ Len(Sent) + 2 <= Len(Encode(ret.doc))

\* ------------------------------------------------------------------ C16
\* what the k-th Token call on a reader of this payload returns
Replayed(payload, k) ==
    IF k <= Len(payload) THEN [t |-> payload[k], err |-> Nil]
    ELSE [t |-> Nil, err |-> "io.EOF"]

\* C16: the calls on every reader have returned the events of the Data's
\* stored payload one per call in order and io.EOF from then on, whatever
\* other readers of the same Data have read, with the payload as it was.
ReaderReplays ==
    /\ readers # <<>> => ret.doc \in Documents
    /\ \A n \in 1..Len(readers) :
           \A k \in 1..Len(readers[n].got) :
               readers[n].got[k] = Replayed(AllData(ret.doc)[readers[n].of].Data, k)

\* two readers of one Data: one has read past the end twice, the other has
\* then read the first event
ReaderWitness ==
    /\ Len(readers) = 2
    /\ readers[1].of = readers[2].of
    /\ AllData(ret.doc)[readers[1].of].Data # <<>>
    /\ Len(readers[1].got) = Len(AllData(ret.doc)[readers[1].of].Data) + 2
    /\ Len(readers[2].got) = 1
    /\ readers[2].got[1].err = Nil

\* ------------------------------------------------------------------ C17
\* an element: its start tag, what it holds, its end tag
Emitted(local, attr, body) ==
    <<StartElement(mlName(local), attr)>> \o body \o <<EndElement(mlName(local))>>

RECURSIVE EmittedData(_, _), EmittedEdges(_, _), EmittedGraphs(_, _), EmittedNodes(_, _),
          EmittedKeys(_, _)
\* the elements of a list from its i-th on, in stored order
EmittedData(l, i) ==
    IF i > Len(l) THEN <<>>
    ELSE Emitted("data", DataAttrs(l[i]), l[i].Data) \o EmittedData(l, i + 1)

EmittedEdges(l, i) ==
    IF i > Len(l) THEN <<>>
    ELSE Emitted("edge", EdgeAttrs(l[i]), EmittedData(l[i].Data, 1)) \o EmittedEdges(l, i + 1)

EmittedGraphs(l, i) ==
    IF i > Len(l) THEN <<>>
    ELSE Emitted("graph", GraphAttrs(l[i]),
                 EmittedData(l[i].Data, 1) \o EmittedNodes(l[i].Nodes, 1)
                   \o EmittedEdges(l[i].Edges, 1))
           \o EmittedGraphs(l, i + 1)

EmittedNodes(l, i) ==
    IF i > Len(l) THEN <<>>
    ELSE Emitted("node", NodeAttrs(l[i]),
                 EmittedData(l[i].Data, 1) \o EmittedGraphs(l[i].Graphs, 1))
           \o EmittedNodes(l, i + 1)

EmittedKeys(l, i) ==
    IF i > Len(l) THEN <<>>
    ELSE Emitted("key", KeyAttrs(l[i]), <<>>) \o EmittedKeys(l, i + 1)

\* C17: a successful encode has written the processing instruction, then the
\* root with the stored attributes holding the keys, the graphs and the
\* top-level data in this order, every element holding its parts in the
\* order data, nodes, edges (graph), data, subgraphs (node), data (edge),
\* payload (data).
EmittedInOrder ==
    Encoded =>
        out.events = <<ret.doc.Instr>>
                       \o Emitted("graphml", ret.doc.Attrs,
                                  EmittedKeys(ret.doc.Keys, 1) \o EmittedGraphs(ret.doc.Graphs, 1)
                                    \o EmittedData(ret.doc.Data, 1))

\* a written document without a processing instruction, with keys, a graph
\* that has data, nodes with a subgraph and edges with data, and top-level data
EmittedWitness ==
    /\ Encoded
    /\ ret.doc.Instr = EmptyInstr
    /\ ret.doc.Keys # <<>>
    /\ ret.doc.Data # <<>>
    /\ \E i \in 1..Len(ret.doc.Graphs) :
           /\ ret.doc.Graphs[i].Data # <<>>
           /\ \E j \in 1..Len(ret.doc.Graphs[i].Nodes) :
                  /\ ret.doc.Graphs[i].Nodes[j].Data # <<>>
                  /\ ret.doc.Graphs[i].Nodes[j].Graphs # <<>>
           /\ \E j \in 1..Len(ret.doc.Graphs[i].Edges) : ret.doc.Graphs[i].Edges[j].Data # <<>>

\* ------------------------------------------------------------------ C21
\* the i-th key of the document is stored in its table, and in that one only
KeyInItsTable(i) ==
    LET k == b.doc.Keys[i]
        dk == docKey(k.ID, k.For)
    IN  IF k.For = KindAll
        THEN /\ k.ID \in DOMAIN b.keysAll
             /\ b.keysAll[k.ID] = k
             /\ dk \notin DOMAIN b.keys
        ELSE /\ dk \in DOMAIN b.keys
             /\ b.keys[dk] = k
             /\ (k.ID \in DOMAIN b.keysAll => b.keysAll[k.ID] # k)

\* the non-empty ids of the graph, node and edge start tags decoded so far
IDsDecoded ==
    { AttrValue(consumed[i].tok.Attr, "id") :
          i \in { j \in 1..Len(consumed) : IsObject(consumed[j]) } } \ {""}

\* C21: in every state of a decode pass each key of Document.Keys is stored
\* in exactly one table, the all-scope table when its scope is all and the
\* (identifier, scope) table otherwise, the tables hold nothing else, no two
\* keys of the document share identifier and scope, and the seen-identifier
\* set is the set of non-empty ids of the graphs, nodes and edges decoded.
TablesAgree ==
    /\ \A i \in 1..Len(b.doc.Keys) : KeyInItsTable(i)
    /\ \A id \in DOMAIN b.keysAll :
           \E i \in 1..Len(b.doc.Keys) :
               b.doc.Keys[i] = b.keysAll[id] /\ b.doc.Keys[i].ID = id /\ b.doc.Keys[i].For = KindAll
    /\ \A dk \in DOMAIN b.keys :
           \E i \in 1..Len(b.doc.Keys) :
               b.doc.Keys[i] = b.keys[dk] /\ docKey(b.doc.Keys[i].ID, b.doc.Keys[i].For) = dk
    /\ \A i, j \in 1..Len(b.doc.Keys) :
           (b.doc.Keys[i].ID = b.doc.Keys[j].ID /\ b.doc.Keys[i].For = b.doc.Keys[j].For) => i = j
    /\ b.ids = IDsDecoded

\* a running pass that has stored an all-scope key, a scoped key of the same
\* identifier and the id of a graph
TablesWitness ==
    /\ Running(b)
    /\ DOMAIN b.keysAll # {}
    /\ DOMAIN b.keys # {}
    /\ Len(b.doc.Keys) = 2
    /\ b.doc.Keys[1].ID = b.doc.Keys[2].ID
    /\ b.ids # {}

\* ------------------------------------------------------------------ C22
\* the root's end tag was consumed, or an error was reported
Halted(d) == d.err # Nil \/ d.stack = <<>>

\* the decoder after the first i answers of the source, each taken once
RECURSIVE After(_)
After(i) ==
    IF i = 0 THEN NewDocDecoder
    ELSE LET d == After(i - 1)
             t == consumed[i].tok
         IN  CASE Halted(d) -> d
               [] t = EOF -> OnEOF(d)
               [] t = SourceError -> OnError(d, "source error")
               [] OTHER -> OnToken(d, t)

\* every answer was taken once and in order, none was pulled after the root's
\* end tag or after an error, and the call returned when the pass halted
PullsOnce ==
    /\ b = After(Len(consumed))
    /\ \A i \in 0..(Len(consumed) - 1) : ~Halted(After(i))
    /\ Len(consumed) <= MaxTokens + 1
    /\ Halted(b) <=> ret # NotReturned

\* C22: Decode takes each event of the stream at most once and in order,
\* pulls nothing after the root's end tag or after the first error, and on a
\* finite stream it returns.
PullsOnceAndTerminates == []PullsOnce /\ <>(ret # NotReturned)

\* a pass that returned an error of its own before the stream was exhausted
TerminatesWitness ==
    /\ ret # NotReturned
    /\ b.err \notin {Nil, "io.ErrUnexpectedEOF", "source error"}
    /\ Len(consumed) \in 3..(MaxTokens - 1)

====
